---- MODULE Spec2Model ----
(***************************************************************************)
(* Model of the generic containers of demo/src/containers.hpp:             *)
(* Stack<T>, RingBuffer<T, N>, Result<T, E> and the exception types they   *)
(* throw.  One behaviour follows one instantiated object through the calls *)
(* a caller makes on it; `hist` is the caller's record of those calls and  *)
(* of what each returned or threw.                                         *)
(***************************************************************************)
EXTENDS Integers, Sequences, FiniteSets, TLC

\* ---- bounds of the model ------------------------------------------------
MaxN == 3          \* RingBuffer capacities 1..MaxN are instantiated
MaxVal == 1        \* element values are 0..MaxVal
MaxOps == 6        \* calls made on one object in one behaviour
MaxResultOps == 4  \* calls made on one Result in one behaviour
SizeBits == 16     \* width used for std::size_t arithmetic

TVals == 0 .. MaxVal
EVals == 0 .. MaxVal
SizeMod == 2 ^ SizeBits
DefaultT == 0
NoVal == "void"

VARIABLES
    inst,          \* which template the caller instantiated
    N,             \* RingBuffer capacity (template parameter)
    buf_, head_, tail_, size_,   \* RingBuffer members
    Stack_data_,   \* Stack::data_
    Result_data_,  \* Result::data_ (std::variant<T, E>)
    hist           \* calls made so far: [op, arg, exc, ret]

vars == <<inst, N, buf_, head_, tail_, size_, Stack_data_, Result_data_, hist>>
ringVars == <<N, buf_, head_, tail_, size_>>

Call(op, arg, exc, ret) == [op |-> op, arg |-> arg, exc |-> exc, ret |-> ret]
last == hist[Len(hist)]

\* ---- exception types ----------------------------------------------------
ExceptionTypes ==
    {"BufferOverflow", "BufferUnderflow", "ContainerError",
     "runtime_error", "bad_variant_access", "exception"}

BaseClass_flat(t) == "exception"

BaseClass(t) ==
    CASE t = "BufferOverflow" -> "ContainerError"
      [] t = "BufferUnderflow" -> "ContainerError"
      [] t = "ContainerError" -> "runtime_error"
      [] t = "runtime_error" -> "exception"
      [] t = "bad_variant_access" -> "exception"
      [] OTHER -> "exception"

RECURSIVE Catches(_, _)
Catches(handler, thrown) ==
    IF handler = thrown THEN TRUE
    ELSE IF thrown = "exception" THEN FALSE
    ELSE Catches(handler, BaseClass(thrown))

\* ---- RingBuffer<T, N> ---------------------------------------------------
RingBuffer_empty_never == FALSE

RingBuffer_empty_by_indices == head_ = tail_

RingBuffer_empty == size_ = 0

RingBuffer_full_never == FALSE

RingBuffer_full == size_ = N

RingBuffer_size == size_

RingBuffer_capacity == N

RingBuffer_write_overwrite(value) ==
    /\ inst = "RingBuffer"
    /\ Len(hist) < MaxOps
    /\ buf_' = [buf_ EXCEPT ![tail_] = value]
    /\ tail_' = ((tail_ + 1) % SizeMod) % N
    /\ IF RingBuffer_full
       THEN /\ head_' = ((head_ + 1) % SizeMod) % N
            /\ size_' = size_
       ELSE /\ head_' = head_
            /\ size_' = (size_ + 1) % SizeMod
    /\ hist' = Append(hist, Call("write", value, "none", NoVal))
    /\ UNCHANGED <<inst, N, Stack_data_, Result_data_>>

RingBuffer_write_no_count(value) ==
    /\ inst = "RingBuffer"
    /\ Len(hist) < MaxOps
    /\ IF RingBuffer_full
       THEN /\ hist' = Append(hist, Call("write", value, "BufferOverflow", NoVal))
            /\ UNCHANGED <<buf_, head_, tail_, size_>>
       ELSE /\ buf_' = [buf_ EXCEPT ![tail_] = value]
            /\ tail_' = ((tail_ + 1) % SizeMod) % N
            /\ hist' = Append(hist, Call("write", value, "none", NoVal))
            /\ UNCHANGED <<head_, size_>>
    /\ UNCHANGED <<inst, N, Stack_data_, Result_data_>>

RingBuffer_write(value) ==
    /\ inst = "RingBuffer"
    /\ Len(hist) < MaxOps
    /\ IF RingBuffer_full
       THEN /\ hist' = Append(hist, Call("write", value, "BufferOverflow", NoVal))
            /\ UNCHANGED <<buf_, head_, tail_, size_>>
       ELSE /\ buf_' = [buf_ EXCEPT ![tail_] = value]
            /\ tail_' = ((tail_ + 1) % SizeMod) % N
            /\ size_' = (size_ + 1) % SizeMod
            /\ hist' = Append(hist, Call("write", value, "none", NoVal))
            /\ UNCHANGED head_
    /\ UNCHANGED <<inst, N, Stack_data_, Result_data_>>

RingBuffer_read_unchecked ==
    /\ inst = "RingBuffer"
    /\ Len(hist) < MaxOps
    /\ head_' = ((head_ + 1) % SizeMod) % N
    /\ size_' = (size_ - 1) % SizeMod
    /\ hist' = Append(hist, Call("read", NoVal, "none", buf_[head_]))
    /\ UNCHANGED <<buf_, tail_>>
    /\ UNCHANGED <<inst, N, Stack_data_, Result_data_>>

RingBuffer_read_advance_first ==
    /\ inst = "RingBuffer"
    /\ Len(hist) < MaxOps
    /\ IF RingBuffer_empty
       THEN /\ hist' = Append(hist, Call("read", NoVal, "BufferUnderflow", NoVal))
            /\ UNCHANGED <<buf_, head_, tail_, size_>>
       ELSE /\ head_' = ((head_ + 1) % SizeMod) % N
            /\ size_' = (size_ - 1) % SizeMod
            /\ hist' = Append(hist, Call("read", NoVal, "none", buf_[head_']))
            /\ UNCHANGED <<buf_, tail_>>
    /\ UNCHANGED <<inst, N, Stack_data_, Result_data_>>

RingBuffer_read_no_advance ==
    /\ inst = "RingBuffer"
    /\ Len(hist) < MaxOps
    /\ IF RingBuffer_empty
       THEN /\ hist' = Append(hist, Call("read", NoVal, "BufferUnderflow", NoVal))
            /\ UNCHANGED <<buf_, head_, tail_, size_>>
       ELSE /\ size_' = (size_ - 1) % SizeMod
            /\ hist' = Append(hist, Call("read", NoVal, "none", buf_[head_]))
            /\ UNCHANGED <<buf_, head_, tail_>>
    /\ UNCHANGED <<inst, N, Stack_data_, Result_data_>>

RingBuffer_read ==
    /\ inst = "RingBuffer"
    /\ Len(hist) < MaxOps
    /\ IF RingBuffer_empty
       THEN /\ hist' = Append(hist, Call("read", NoVal, "BufferUnderflow", NoVal))
            /\ UNCHANGED <<buf_, head_, tail_, size_>>
       ELSE /\ head_' = ((head_ + 1) % SizeMod) % N
            /\ size_' = (size_ - 1) % SizeMod
            /\ hist' = Append(hist, Call("read", NoVal, "none", buf_[head_]))
            /\ UNCHANGED <<buf_, tail_>>
    /\ UNCHANGED <<inst, N, Stack_data_, Result_data_>>

\* ---- Stack<T> -----------------------------------------------------------
front(s) == s[1]

back(s) == s[Len(s)]

pop_back(s) == SubSeq(s, 1, Len(s) - 1)

Stack_empty == Len(Stack_data_) = 0

Stack_size == Len(Stack_data_)

Stack_push(value) ==
    /\ inst = "Stack"
    /\ Len(hist) < MaxOps
    /\ Stack_data_' = Append(Stack_data_, value)
    /\ hist' = Append(hist, Call("push", value, "none", NoVal))
    /\ UNCHANGED <<inst, ringVars, Result_data_>>

Stack_pop_silent ==
    /\ inst = "Stack"
    /\ Len(hist) < MaxOps
    /\ IF Stack_empty
       THEN /\ hist' = Append(hist, Call("pop", NoVal, "none", DefaultT))
            /\ UNCHANGED Stack_data_
       ELSE /\ hist' = Append(hist, Call("pop", NoVal, "none", back(Stack_data_)))
            /\ Stack_data_' = pop_back(Stack_data_)
    /\ UNCHANGED <<inst, ringVars, Result_data_>>

Stack_pop ==
    /\ inst = "Stack"
    /\ Len(hist) < MaxOps
    /\ IF Stack_empty
       THEN /\ hist' = Append(hist, Call("pop", NoVal, "BufferUnderflow", NoVal))
            /\ UNCHANGED Stack_data_
       ELSE /\ hist' = Append(hist, Call("pop", NoVal, "none", back(Stack_data_)))
            /\ Stack_data_' = pop_back(Stack_data_)
    /\ UNCHANGED <<inst, ringVars, Result_data_>>

Stack_top_removing ==
    /\ inst = "Stack"
    /\ Len(hist) < MaxOps
    /\ IF Stack_empty
       THEN /\ hist' = Append(hist, Call("top", NoVal, "BufferUnderflow", NoVal))
            /\ UNCHANGED Stack_data_
       ELSE /\ hist' = Append(hist, Call("top", NoVal, "none", back(Stack_data_)))
            /\ Stack_data_' = pop_back(Stack_data_)
    /\ UNCHANGED <<inst, ringVars, Result_data_>>

Stack_top ==
    /\ inst = "Stack"
    /\ Len(hist) < MaxOps
    /\ IF Stack_empty
       THEN hist' = Append(hist, Call("top", NoVal, "BufferUnderflow", NoVal))
       ELSE hist' = Append(hist, Call("top", NoVal, "none", back(Stack_data_)))
    /\ UNCHANGED <<inst, ringVars, Stack_data_, Result_data_>>

Stack_clear ==
    /\ inst = "Stack"
    /\ Len(hist) < MaxOps
    /\ Stack_data_' = <<>>
    /\ hist' = Append(hist, Call("clear", NoVal, "none", NoVal))
    /\ UNCHANGED <<inst, ringVars, Result_data_>>

\* ---- Result<T, E> -------------------------------------------------------
\* std::variant<T, E>: index 0 holds a T, index 1 holds an E.
Result_ok(value) == [index |-> 0, val |-> value]

Result_err_untagged(error) == [index |-> 0, val |-> error]

Result_err(error) == [index |-> 1, val |-> error]

holds_alternative(i, v) == v.index = i

get_unchecked(i, v) == [exc |-> "none", ret |-> v.val]

get(i, v) ==
    IF v.index = i THEN [exc |-> "none", ret |-> v.val]
    ELSE [exc |-> "bad_variant_access", ret |-> NoVal]

Result_is_ok == holds_alternative(0, Result_data_)

Result_is_err == ~Result_is_ok

Result_call_is_ok ==
    /\ inst = "Result"
    /\ Len(hist) < MaxResultOps
    /\ hist' = Append(hist, Call("is_ok", NoVal, "none", Result_is_ok))
    /\ UNCHANGED <<inst, ringVars, Stack_data_, Result_data_>>

Result_call_is_err ==
    /\ inst = "Result"
    /\ Len(hist) < MaxResultOps
    /\ hist' = Append(hist, Call("is_err", NoVal, "none", Result_is_err))
    /\ UNCHANGED <<inst, ringVars, Stack_data_, Result_data_>>

Result_value ==
    /\ inst = "Result"
    /\ Len(hist) < MaxResultOps
    /\ LET r == get(0, Result_data_)
       IN hist' = Append(hist, Call("value", NoVal, r.exc, r.ret))
    /\ UNCHANGED <<inst, ringVars, Stack_data_, Result_data_>>

Result_error ==
    /\ inst = "Result"
    /\ Len(hist) < MaxResultOps
    /\ LET r == get(1, Result_data_)
       IN hist' = Append(hist, Call("error", NoVal, r.exc, r.ret))
    /\ UNCHANGED <<inst, ringVars, Stack_data_, Result_data_>>

\* The implicitly declared copy/move assignment: *this = other.
Result_assign_payload_only(other) ==
    /\ inst = "Result"
    /\ Len(hist) < MaxResultOps
    /\ Result_data_' = [Result_data_ EXCEPT !.val = other.val]
    /\ hist' = Append(hist, Call("assign", other, "none", NoVal))
    /\ UNCHANGED <<inst, ringVars, Stack_data_>>

Result_assign(other) ==
    /\ inst = "Result"
    /\ Len(hist) < MaxResultOps
    /\ Result_data_' = other
    /\ hist' = Append(hist, Call("assign", other, "none", NoVal))
    /\ UNCHANGED <<inst, ringVars, Stack_data_>>

\* ---- the state machine --------------------------------------------------
InitRingBuffer ==
    /\ inst = "RingBuffer"
    /\ N \in 1 .. MaxN
    /\ buf_ = [i \in 0 .. N - 1 |-> DefaultT]
    /\ head_ = 0
    /\ tail_ = 0
    /\ size_ = 0
    /\ Stack_data_ = <<>>
    /\ Result_data_ = Result_ok(DefaultT)
    /\ hist = <<>>

InitStack ==
    /\ inst = "Stack"
    /\ N = 1
    /\ buf_ = [i \in 0 .. 0 |-> DefaultT]
    /\ head_ = 0
    /\ tail_ = 0
    /\ size_ = 0
    /\ Stack_data_ = <<>>
    /\ Result_data_ = Result_ok(DefaultT)
    /\ hist = <<>>

InitResult ==
    /\ inst = "Result"
    /\ N = 1
    /\ buf_ = [i \in 0 .. 0 |-> DefaultT]
    /\ head_ = 0
    /\ tail_ = 0
    /\ size_ = 0
    /\ Stack_data_ = <<>>
    /\ \/ \E v \in TVals :
            /\ Result_data_ = Result_ok(v)
            /\ hist = <<Call("ok", v, "none", NoVal)>>
       \/ \E e \in EVals :
            /\ Result_data_ = Result_err(e)
            /\ hist = <<Call("err", e, "none", NoVal)>>

Init == InitRingBuffer \/ InitStack \/ InitResult

Next ==
    \/ \E value \in TVals : RingBuffer_write(value)
    \/ RingBuffer_read
    \/ \E value \in TVals : Stack_push(value)
    \/ Stack_pop
    \/ Stack_top
    \/ Stack_clear
    \/ Result_call_is_ok
    \/ Result_call_is_err
    \/ Result_value
    \/ Result_error
    \/ \E value \in TVals : Result_assign(Result_ok(value))
    \/ \E error \in EVals : Result_assign(Result_err(error))

Spec == Init /\ [][Next]_vars

\* ---- what the caller observed -------------------------------------------
OkCalls(op) == SelectSeq(hist, LAMBDA c : c.op = op /\ c.exc = "none")

Stepped == Len(hist') = Len(hist) + 1

\* value of the oldest successful write that no read has returned yet
OldestUnread == OkCalls("write")[Len(OkCalls("read")) + 1].arg

\* ---- RingBuffer claims --------------------------------------------------
\* C1: FIFO law.  In every reachable state of a RingBuffer<T, N>, the values
\* returned by the successful reads are a prefix of the values passed to the
\* successful writes: the k-th successful read returned the value of the
\* k-th successful write, also after tail_ and head_ have wrapped around.
C1_ReadOrderIsWriteOrder ==
    inst = "RingBuffer" =>
        LET W == OkCalls("write")
            R == OkCalls("read")
        IN /\ Len(R) <= Len(W)
           /\ \A k \in 1 .. Len(R) : R[k].ret = W[k].arg

C1_Witness ==
    /\ inst = "RingBuffer"
    /\ N = 2
    /\ Len(OkCalls("write")) > N
    /\ Len(OkCalls("read")) = Len(OkCalls("write"))
    /\ \E k \in 1 .. Len(OkCalls("read")) : OkCalls("read")[k].ret # OkCalls("read")[1].ret
    /\ last.op = "read"

\* C2: Overflow.  A write on a RingBuffer whose size_ equals N throws
\* BufferOverflow and leaves buf_, head_, tail_ and size_ unchanged; the
\* oldest element is still in the slot at head_, and a read that follows the
\* failed write returns it.
C2_OverflowLeavesBufferUnchanged ==
    [][ /\ (inst = "RingBuffer" /\ size_ = N /\ Stepped /\ last'.op = "write")
            => /\ last'.exc = "BufferOverflow"
               /\ UNCHANGED <<buf_, head_, tail_, size_>>
               /\ buf_'[head_'] = OldestUnread'
        /\ (inst = "RingBuffer" /\ Len(hist) > 0 /\ Stepped
              /\ last.exc = "BufferOverflow" /\ last'.op = "read")
            => /\ last'.exc = "none"
               /\ last'.ret = OldestUnread
      ]_vars

C2_Witness ==
    /\ inst = "RingBuffer"
    /\ N >= 2
    /\ Len(hist) >= 2
    /\ hist[Len(hist) - 1].exc = "BufferOverflow"
    /\ last.op = "read"
    /\ last.exc = "none"
    /\ Len(OkCalls("write")) > N

\* C3: Underflow.  A read on a RingBuffer whose size_ is 0, freshly
\* constructed or drained, throws BufferUnderflow and leaves buf_, head_,
\* tail_ and size_ unchanged; size() is still 0 afterwards.
C3_UnderflowLeavesBufferUnchanged ==
    [][ (inst = "RingBuffer" /\ size_ = 0 /\ Stepped /\ last'.op = "read")
            => /\ last'.exc = "BufferUnderflow"
               /\ UNCHANGED <<buf_, head_, tail_, size_>>
               /\ RingBuffer_size' = 0
      ]_vars

C3_Witness ==
    /\ inst = "RingBuffer"
    /\ Len(hist) > 1
    /\ hist[1].op = "read"
    /\ hist[1].exc = "BufferUnderflow"
    /\ last.op = "read"
    /\ last.exc = "BufferUnderflow"
    /\ Len(OkCalls("write")) > N

\* C4: Ranges.  In every reachable state of a RingBuffer<T, N>,
\* 0 <= size_ <= N, 0 <= head_ < N and 0 <= tail_ < N; the decrement of
\* size_ never wraps below 0 and the increment never passes N.
C4_IndicesAndCountInRange ==
    inst = "RingBuffer" =>
        /\ N >= 1
        /\ 0 <= size_ /\ size_ <= N
        /\ 0 <= head_ /\ head_ < N
        /\ 0 <= tail_ /\ tail_ < N

C4_Witness ==
    /\ inst = "RingBuffer"
    /\ N >= 2
    /\ size_ = N
    /\ head_ = N - 1
    /\ tail_ = head_
    /\ \E k \in 1 .. Len(hist) : hist[k].exc = "BufferUnderflow"
    /\ \E k \in 1 .. Len(hist) : hist[k].exc = "BufferOverflow"

\* ---- Stack claims -------------------------------------------------------
IsPush(k) == hist[k].op = "push"

IsPop(k) == hist[k].op = "pop" /\ hist[k].exc = "none"

\* index of the last clear() before call k, 0 if there is none
LastClear(k) ==
    LET C == {j \in 1 .. k - 1 : hist[j].op = "clear"}
    IN IF C = {} THEN 0 ELSE CHOOSE j \in C : \A i \in C : i <= j

Pushes(a, b) == Cardinality({i \in a .. b : IsPush(i)})

Pops(a, b) == Cardinality({i \in a .. b : IsPop(i)})

\* the pushes that call k could be paired with: pushed since the last
\* clear, and everything pushed after them popped again before k
Unpopped(k) ==
    {j \in LastClear(k) + 1 .. k - 1 :
        IsPush(j) /\ Pushes(j + 1, k - 1) = Pops(j + 1, k - 1)}

MostRecentUnpopped(k) == CHOOSE j \in Unpopped(k) : \A i \in Unpopped(k) : i <= j

\* hist is k pushes followed only by pops
PushesThenPops(k) ==
    /\ k <= Len(hist)
    /\ \A i \in 1 .. k : IsPush(i)
    /\ \A i \in k + 1 .. Len(hist) : hist[i].op = "pop"

\* C5: LIFO law.  Every successful pop of a Stack<T> returned the most
\* recently pushed element not yet popped; k pushes followed by k pops
\* return the values in reverse push order; and after every prefix of the
\* calls size() is the number of pushes minus the number of successful pops
\* (counted since the last clear) and is never negative.
C5_PopOrderIsReversePushOrder ==
    inst = "Stack" =>
        /\ \A k \in 1 .. Len(hist) :
              IsPop(k) => /\ Unpopped(k) # {}
                          /\ hist[k].ret = hist[MostRecentUnpopped(k)].arg
        /\ \A k \in 0 .. Len(hist) :
              PushesThenPops(k) =>
                 \A i \in 1 .. Len(hist) - k :
                    IF i <= k
                    THEN /\ hist[k + i].exc = "none"
                         /\ hist[k + i].ret = hist[k - i + 1].arg
                    ELSE hist[k + i].exc = "BufferUnderflow"
        /\ LET c == LastClear(Len(hist) + 1)
           IN Stack_size = Pushes(c + 1, Len(hist)) - Pops(c + 1, Len(hist))
        /\ Stack_size >= 0

C5_Witness ==
    /\ inst = "Stack"
    /\ Len(hist) = 6
    /\ PushesThenPops(3)
    /\ hist[1].arg # hist[2].arg
    /\ hist[2].arg = hist[3].arg
    /\ hist[6].exc = "none"
    /\ Stack_empty

\* C6: Underflow.  pop or top on an empty Stack (fresh, emptied by pops or
\* emptied by clear) throws BufferUnderflow and leaves data_ unchanged with
\* size() still 0; a push that follows the failure behaves as on a fresh
\* stack, leaving exactly the pushed element.
C6_StackUnderflowLeavesStackUnchanged ==
    [][ /\ (inst = "Stack" /\ Stack_empty /\ Stepped /\ last'.op \in {"pop", "top"})
            => /\ last'.exc = "BufferUnderflow"
               /\ last'.ret = NoVal
               /\ UNCHANGED Stack_data_
               /\ Stack_size' = 0
        /\ (inst = "Stack" /\ Len(hist) > 0 /\ Stepped
              /\ last.exc = "BufferUnderflow" /\ last'.op = "push")
            => /\ last'.exc = "none"
               /\ Stack_data_' = <<last'.arg>>
               /\ Stack_size' = 1
      ]_vars

C6_Witness ==
    /\ inst = "Stack"
    /\ Len(hist) = 6
    /\ IsPop(2)
    /\ hist[3].op = "pop"
    /\ hist[3].exc = "BufferUnderflow"
    /\ IsPush(4)
    /\ hist[5].op = "clear"
    /\ hist[6].op = "top"
    /\ hist[6].exc = "BufferUnderflow"

\* ---- Result claims ------------------------------------------------------
\* the construction or assignment that gave the Result the state call k saw
Source(k) ==
    LET S == {j \in 1 .. k - 1 : hist[j].op \in {"ok", "err", "assign"}}
    IN hist[CHOOSE j \in S : \A i \in S : i <= j]

SourceIsOk(k, v) ==
    \/ Source(k).op = "ok" /\ Source(k).arg = v
    \/ Source(k).op = "assign" /\ Source(k).arg = Result_ok(v)

SourceIsErr(k, e) ==
    \/ Source(k).op = "err" /\ Source(k).arg = e
    \/ Source(k).op = "assign" /\ Source(k).arg = Result_err(e)

\* C7: Exclusivity.  A Result made by ok(v) reports is_ok() true, is_err()
\* false and value() = v; one made by err(e) reports is_err() true, is_ok()
\* false and error() = e; exactly one of is_ok() and is_err() is true for
\* every Result, also when T and E have values in common.
C7_OkAndErrAreExclusive ==
    inst = "Result" =>
        /\ Result_is_ok # Result_is_err
        /\ \A v \in TVals : SourceIsOk(Len(hist) + 1, v) =>
              Result_is_ok /\ ~Result_is_err
        /\ \A e \in EVals : SourceIsErr(Len(hist) + 1, e) =>
              Result_is_err /\ ~Result_is_ok
        /\ \A k \in 2 .. Len(hist) :
              /\ \A v \in TVals : SourceIsOk(k, v) =>
                    /\ hist[k].op = "is_ok" => hist[k].ret = TRUE
                    /\ hist[k].op = "is_err" => hist[k].ret = FALSE
                    /\ hist[k].op = "value" =>
                          hist[k].exc = "none" /\ hist[k].ret = v
              /\ \A e \in EVals : SourceIsErr(k, e) =>
                    /\ hist[k].op = "is_ok" => hist[k].ret = FALSE
                    /\ hist[k].op = "is_err" => hist[k].ret = TRUE
                    /\ hist[k].op = "error" =>
                          hist[k].exc = "none" /\ hist[k].ret = e

C7_Witness ==
    /\ inst = "Result"
    /\ Len(hist) = 4
    /\ hist[1].op = "err"
    /\ hist[1].arg \in TVals
    /\ hist[2].op = "is_err"
    /\ hist[3].op = "is_ok"
    /\ hist[4].op = "error"
    /\ hist[4].ret = hist[1].arg

\* C8: Wrong variant.  value() on an error Result and error() on a success
\* Result throw std::bad_variant_access (the WrongVariantAccess condition)
\* and return no payload; the Result keeps its variant and its payload.
C8_WrongVariantAccessThrows ==
    [][ /\ (inst = "Result" /\ Result_is_err /\ Stepped /\ last'.op = "value")
            => /\ last'.exc = "bad_variant_access"
               /\ last'.ret = NoVal
               /\ UNCHANGED Result_data_
               /\ Result_is_err'
        /\ (inst = "Result" /\ Result_is_ok /\ Stepped /\ last'.op = "error")
            => /\ last'.exc = "bad_variant_access"
               /\ last'.ret = NoVal
               /\ UNCHANGED Result_data_
               /\ Result_is_ok'
      ]_vars

C8_Witness ==
    /\ inst = "Result"
    /\ Len(hist) = 4
    /\ hist[1].op = "err"
    /\ hist[2].op = "value"
    /\ hist[2].exc = "bad_variant_access"
    /\ hist[3].op = "assign"
    /\ hist[4].op = "error"
    /\ hist[4].exc = "bad_variant_access"

\* C9 as stated: no operation on an existing Result, assignment from
\* another Result included, changes its discriminant or its payload.
C9_NothingChangesAResult ==
    [][ inst = "Result" => Result_data_' = Result_data_ ]_vars

\* C9, amended: is_ok, is_err, value and error leave the discriminant and
\* the payload unchanged; assignment from another Result replaces both with
\* those of the Result assigned from, so it can turn ok into err and err
\* into ok.
C9_OnlyAssignmentChangesAResult ==
    [][ (inst = "Result" /\ Stepped) =>
          /\ last'.op \in {"is_ok", "is_err", "value", "error", "assign"}
          /\ last'.op \in {"is_ok", "is_err", "value", "error"}
                => Result_data_' = Result_data_
          /\ last'.op = "assign" => Result_data_' = last'.arg
      ]_vars

C9_Witness ==
    /\ inst = "Result"
    /\ Len(hist) = 4
    /\ hist[1].op = "err"
    /\ hist[2].op = "value"
    /\ hist[3].op = "is_err"
    /\ hist[3].ret = TRUE
    /\ hist[4].op = "assign"
    /\ Result_is_ok
    /\ Result_data_.val # hist[1].arg

\* ---- exception claims ---------------------------------------------------
Thrown == {hist[k].exc : k \in 1 .. Len(hist)} \ {"none"}

FailureKinds == {"BufferUnderflow", "BufferOverflow", "bad_variant_access"}

ThrowsItsKind ==
    \A k \in 1 .. Len(hist) :
        hist[k].exc # "none" =>
            /\ hist[k].op \in {"pop", "top", "read"} => hist[k].exc = "BufferUnderflow"
            /\ hist[k].op = "write" => hist[k].exc = "BufferOverflow"
            /\ hist[k].op \in {"value", "error"} => hist[k].exc = "bad_variant_access"
            /\ hist[k].op \in {"pop", "top", "read", "write", "value", "error"}

KindsAreDisjoint ==
    \A t \in Thrown : \A h \in FailureKinds : Catches(h, t) <=> h = t

C11_WriteStoresAtTailAndAdvances ==
    [][ (inst = "RingBuffer" /\ size_ < N /\ Stepped /\ last'.op = "write")
            => /\ last'.exc = "none"
               /\ buf_'[tail_] = last'.arg
               /\ tail_' = (tail_ + 1) % N
               /\ size_' = size_ + 1
               /\ head_' = head_
               /\ DOMAIN buf_' = DOMAIN buf_
               /\ \A i \in (DOMAIN buf_) \ {tail_} : buf_'[i] = buf_[i]
      ]_vars

C11_Witness ==
    /\ inst = "RingBuffer"
    /\ N = 3
    /\ Len(hist) = 6
    /\ last.op = "write"
    /\ last.exc = "none"
    /\ tail_ = 1
    /\ head_ = 2
    /\ size_ = 2
    /\ buf_[0] # buf_[2]
    /\ buf_[0] # buf_[1]

\* C12: Effect of read.  A read() on a RingBuffer with size_ > 0 succeeds,
\* returns the value in the slot at the old head_, sets head_ to
\* (old head_ + 1) mod N and decreases size_ by exactly 1; tail_ and every
\* slot are unchanged.
C12_ReadReturnsHeadAndAdvances ==
    [][ (inst = "RingBuffer" /\ size_ > 0 /\ Stepped /\ last'.op = "read")
            => /\ last'.exc = "none"
               /\ last'.ret = buf_[head_]
               /\ head_' = (head_ + 1) % N
               /\ size_' = size_ - 1
               /\ tail_' = tail_
               /\ buf_' = buf_
      ]_vars

C12_Witness ==
    /\ inst = "RingBuffer"
    /\ N = 2
    /\ Len(hist) = 6
    /\ last.op = "read"
    /\ last.exc = "none"
    /\ head_ = 0
    /\ tail_ = 1
    /\ size_ = 1
    /\ buf_[0] # buf_[1]
    /\ last.ret = buf_[1]

\* C13: Round trip at capacity 1.  On a RingBuffer<T, 1>, a write(v) on the
\* empty buffer succeeds and leaves it full (a second write throws
\* BufferOverflow); the read that follows returns exactly v and leaves the
\* buffer empty again (empty() true, full() false, size() 0); this holds for
\* every repetition of the write/read pair.
C13_RoundTripAtCapacityOne ==
    [][ /\ (inst = "RingBuffer" /\ N = 1 /\ RingBuffer_empty /\ Stepped
              /\ last'.op = "write")
            => /\ last'.exc = "none"
               /\ RingBuffer_full'
               /\ ~RingBuffer_empty'
               /\ RingBuffer_size' = 1
        /\ (inst = "RingBuffer" /\ N = 1 /\ Len(hist) > 0 /\ Stepped
              /\ last.op = "write" /\ last.exc = "none" /\ last'.op = "write")
            => /\ last'.exc = "BufferOverflow"
               /\ UNCHANGED <<buf_, head_, tail_, size_>>
        /\ (inst = "RingBuffer" /\ N = 1 /\ Len(hist) > 0 /\ Stepped
              /\ last.op = "write" /\ last.exc = "none" /\ last'.op = "read")
            => /\ last'.exc = "none"
               /\ last'.ret = last.arg
               /\ RingBuffer_empty'
               /\ ~RingBuffer_full'
               /\ RingBuffer_size' = 0
      ]_vars

C13_Witness ==
    /\ inst = "RingBuffer"
    /\ N = 1
    /\ Len(hist) = 6
    /\ \A k \in {1, 3, 5} : /\ hist[k].op = "write"
                            /\ hist[k].exc = "none"
                            /\ hist[k + 1].op = "read"
                            /\ hist[k + 1].ret = hist[k].arg
    /\ hist[1].arg # hist[3].arg
    /\ hist[3].arg = hist[5].arg
    /\ RingBuffer_empty

\* ---- Stack frame claim --------------------------------------------------
\* C14: top.  On a non-empty Stack, top() succeeds, returns the last element
\* of data_ and leaves data_ (size, order and values) unchanged, however
\* often it is called; a pop() that follows a top() returns the same
\* element the top() returned.
C14_TopLeavesStackUnchanged ==
    [][ /\ (inst = "Stack" /\ ~Stack_empty /\ Stepped /\ last'.op = "top")
            => /\ last'.exc = "none"
               /\ last'.ret = Stack_data_[Len(Stack_data_)]
               /\ Stack_data_' = Stack_data_
               /\ Stack_size' = Stack_size
        /\ (inst = "Stack" /\ Len(hist) > 0 /\ Stepped
              /\ last.op = "top" /\ last.exc = "none"
              /\ last'.op \in {"pop", "top"})
            => /\ last'.exc = "none"
               /\ last'.ret = last.ret
      ]_vars

C14_Witness ==
    /\ inst = "Stack"
    /\ Len(hist) = 6
    /\ IsPush(1)
    /\ IsPush(2)
    /\ hist[1].arg # hist[2].arg
    /\ hist[3].op = "top"
    /\ hist[4].op = "top"
    /\ IsPop(5)
    /\ hist[5].ret = hist[3].ret
    /\ hist[6].op = "top"
    /\ hist[6].ret # hist[3].ret
    /\ Stack_size = 1

\* ---- RingBuffer representation claim ------------------------------------
\* C15: Representation.  In every reachable state of a RingBuffer<T, N>,
\* tail_ = (head_ + size_) mod N; head_ = tail_ exactly when the buffer is
\* empty or full; and the size_ live elements are in the slots head_,
\* head_ + 1, ..., head_ + size_ - 1 (mod N) in the order they were written.
C15_TailIsHeadPlusCount ==
    inst = "RingBuffer" =>
        /\ tail_ = (head_ + size_) % N
        /\ (head_ = tail_) <=> (RingBuffer_empty \/ RingBuffer_full)
        /\ size_ = Len(OkCalls("write")) - Len(OkCalls("read"))
        /\ \A i \in 0 .. size_ - 1 :
              buf_[(head_ + i) % N] = OkCalls("write")[Len(OkCalls("read")) + 1 + i].arg

C15_Witness ==
    /\ inst = "RingBuffer"
    /\ N = 2
    /\ head_ = 1
    /\ tail_ = 1
    /\ size_ = 2
    /\ RingBuffer_full
    /\ buf_[1] # buf_[0]
    /\ \E k \in 1 .. Len(hist) : hist[k].exc = "BufferOverflow"
    /\ last.op = "write"
    /\ last.exc = "none"

====
